---- MODULE Spec2Model ----
(***************************************************************************)
(* fees-api: BillingService (internal/service/billing.go) over the         *)
(* InMemoryBillRepository (internal/repository/bill_repo.go).              *)
(*                                                                         *)
(* Every repository call (Create, Get, Update, List) is one atomic step:   *)
(* each runs under the repository's RWMutex.  A service call that makes    *)
(* two repository calls (AddLineItem, CloseBill: Get, then Update) is      *)
(* several steps, and other threads may run in between.  The checks on     *)
(* the bill read are made in the step of the Get.  AddLineItem's append    *)
(* is a step of its own, because it can write to memory that the stored    *)
(* bill shares (see Slices below); CloseBill's assignments are local and   *)
(* run in the step of its Update.                                          *)
(*                                                                         *)
(* Slices: model.Bill.LineItems is a Go slice, a header (array, len) over  *)
(* a backing array with a capacity.  The repository's map holds Bill       *)
(* values, and Get, Create and Update copy the Bill value, that is the     *)
(* header, never the array.  append writes in place when len < cap and     *)
(* allocates a new array otherwise.  heap holds the backing arrays.        *)
(*                                                                         *)
(* Money: float64 amounts are modelled as integers counting hundredths     *)
(* (100.00 is 10000); the inputs are whole units, so that the product      *)
(* with the rate 0.37 = 37/100 is exact.                                   *)
(* Time: time.Now() reads the variable clock, which the environment        *)
(* advances (Tick).  An identifier "bill_<UnixNano>" is modelled by the    *)
(* clock reading it is formatted from.                                     *)
(***************************************************************************)
EXTENDS Integers, Sequences, FiniteSets, TLC

VARIABLES
    bills,      \* InMemoryBillRepository.bills : map[string]model.Bill
    heap,       \* the backing arrays of the LineItems slices
    clock,      \* the reading of time.Now()
    created,    \* the number of calls of generateID so far
    pc,         \* pc[t]: where thread t is inside a service call
    local,      \* local[t]: the locals of the call thread t is inside
    response,   \* what the step just taken returned to its caller, if it returned
    mu,         \* InMemoryBillRepository.mu : sync.RWMutex
    wf,         \* the state of a RunBillingPeriodWorkflow execution
    encore      \* the Encore billing package: its bill map and published events

vars == <<bills, heap, clock, created, pc, local, response, mu, wf, encore>>

----------------------------------------------------------------------------
(* Bounds *)

MaxClock == 2       \* the clock stops advancing at this reading
MaxIDs == 3         \* generateID is called at most this many times

Threads == {"t1", "t2"}
Amounts == {10000}               \* 100.00
Descriptions == {"Service fee"}
CurrencyInputs == {"GEL", "USD", "EUR", ""}
StatusInputs == {"", "open", "closed", "paid"}
IDInputs == 1 .. MaxClock

----------------------------------------------------------------------------
(* internal/model *)

CurrencyGEL == "GEL"
CurrencyUSD == "USD"
BillStatusOpen == "open"
BillStatusClosed == "closed"

Nil == 0    \* the nil *time.Time; clock readings start at 1

\* the empty slice []model.LineItem{}: no backing array, len 0, cap 0
EmptySlice == [arr |-> 0, len |-> 0]

\* the nil *model.Bill
NoBill ==
    [ID |-> 0, Status |-> "", Currency |-> "", TotalAmount |-> 0,
     LineItems |-> EmptySlice, CreatedAt |-> Nil, ClosedAt |-> Nil]

----------------------------------------------------------------------------
(* Go slices *)

Cap(h, s) == IF s.arr = 0 THEN 0 ELSE h[s.arr].cap

\* the elements s[0], ..., s[len-1]
Elements(h, s) == IF s.len = 0 THEN << >> ELSE SubSeq(h[s.arr].elems, 1, s.len)

\* the capacity append allocates when the array is full: 1, 2, 4, 8
GrowCap(cap) == IF cap = 0 THEN 1 ELSE 2 * cap

NewArray(h) == CHOOSE a \in 1 .. Cardinality(DOMAIN h) + 1 : a \notin DOMAIN h

\* append(s, item): the heap and the slice header after it
AppendSlice(h, s, item) ==
    IF s.len < Cap(h, s)
    THEN [heap |-> [h EXCEPT ![s.arr].elems =
                        IF Len(@) > s.len
                        THEN [@ EXCEPT ![s.len + 1] = item]
                        ELSE Append(@, item)],
          slice |-> [arr |-> s.arr, len |-> s.len + 1]]
    ELSE LET a == NewArray(h) IN
         [heap |-> [x \in DOMAIN h \cup {a} |->
                        IF x = a
                        THEN [cap |-> GrowCap(Cap(h, s)),
                              elems |-> Append(Elements(h, s), item)]
                        ELSE h[x]],
          slice |-> [arr |-> a, len |-> s.len + 1]]

\* the arrays that a stored bill or a local bill refers to; the others are garbage
Live(m, loc) ==
    ({m[id].LineItems.arr : id \in DOMAIN m}
        \cup {loc[t].bill.LineItems.arr : t \in DOMAIN loc}) \ {0}

Collect(h, m, loc) == [a \in DOMAIN h \cap Live(m, loc) |-> h[a]]

\* a bill as its reader sees it: the line items behind the slice header
View(h, bill) == [bill EXCEPT !.LineItems = Elements(h, bill.LineItems)]

\* the store as its readers see it
Store == [id \in DOMAIN bills |-> View(heap, bills[id])]

----------------------------------------------------------------------------
(* pkg/errors *)

NoError == "nil"
BillNotFound == "bill not found"
BillClosed == "cannot modify closed bill"
UnsupportedCurrency == "unsupported currency"

----------------------------------------------------------------------------
(* internal/repository: the map operations, each under r.mu *)

Create(m, bill) ==
    [id \in DOMAIN m \cup {bill.ID} |-> IF id = bill.ID THEN bill ELSE m[id]]

Get(m, id) ==
    IF id \in DOMAIN m THEN m[id] ELSE NoBill

\* a faulty variant: stores the bill under every identifier
Update_All(m, bill) ==
    IF bill.ID \notin DOMAIN m
    THEN m
    ELSE [id \in DOMAIN m |-> bill]

\* a faulty variant: stores the bill whether or not its identifier is stored
Update_Insert(m, bill) ==
    [id \in DOMAIN m \cup {bill.ID} |-> IF id = bill.ID THEN bill ELSE m[id]]

Update(m, bill) ==
    IF bill.ID \notin DOMAIN m
    THEN m
    ELSE [m EXCEPT ![bill.ID] = bill]

\* a faulty variant: ignores the filter
List_All(m, status) ==
    {m[id] : id \in DOMAIN m}

List(m, status) ==
    {m[id] : id \in {i \in DOMAIN m : ~(status # "" /\ m[i].Status # status)}}

----------------------------------------------------------------------------
(* internal/service: pure helpers *)

RateScale == 100
exchangeRates ==
    [c \in {CurrencyGEL, CurrencyUSD} |-> IF c = CurrencyGEL THEN 37 ELSE 100]

ConvertToUSD(amount, currency) ==
    IF currency = CurrencyUSD
    THEN amount
    ELSE (amount * exchangeRates[CurrencyGEL]) \div RateScale

convertAndAdd(total, billCurrency, amount, amountCurrency) ==
    IF billCurrency = amountCurrency
    THEN total + amount
    ELSE total + ConvertToUSD(amount, amountCurrency)

generateID == clock

Now == clock

\* a faulty variant: lets the empty currency through
IsSupported_Empty(currency) ==
    currency \in {CurrencyGEL, CurrencyUSD, ""}

IsSupported(currency) ==
    ~(currency # CurrencyGEL /\ currency # CurrencyUSD)

DefaultCurrency(currency) ==
    IF currency = "" THEN CurrencyUSD ELSE currency

----------------------------------------------------------------------------
(* Thread bookkeeping *)

NoLocal ==
    [bill |-> NoBill, Description |-> "", Amount |-> 0, Currency |-> "", Status |-> ""]

\* the unlocked sync.RWMutex
NoLock == [writer |-> FALSE, readers |-> 0]

\* no workflow execution
NoWorkflow ==
    [pc |-> "none", Status |-> "", Currency |-> "", TotalAmount |-> 0,
     LineItemCount |-> 0, StartedAt |-> Nil, ClosedAt |-> Nil,
     BillingPeriodDays |-> 0, timerHandled |-> FALSE,
     addLineItemChan |-> << >>, closeBillChan |-> 0, signals |-> 0,
     handled |-> << >>]

\* response.op, .id and .currency name the call: the operation, the bill
\* identifier it was given (CreateBill: the one it generated) and the currency it
\* was given, and .status the filter ListBills was given; .err, .bill and .list
\* are what it returned, the bills as their reader sees them at the return
NoResponse ==
    [op |-> "none", id |-> 0, currency |-> "", status |-> "", err |-> NoError,
     bill |-> View(<< >>, NoBill), list |-> {}]

\* the Encore billing package before any call: the package-level map is empty
\* and nothing has been published
NoEncore == [bills |-> << >>, events |-> << >>, response |-> NoResponse]

\* the return of thread t's call, in a step that leaves the store m and the heap h
Return(t, op, id, currency, err, bill, m, h) ==
    /\ response' = [op |-> op, id |-> id, currency |-> currency, status |-> "",
                    err |-> err, bill |-> View(h, bill), list |-> {}]
    /\ pc' = [pc EXCEPT ![t] = "idle"]
    /\ local' = [local EXCEPT ![t] = NoLocal]
    /\ heap' = Collect(h, m, [local EXCEPT ![t] = NoLocal])

Init ==
    /\ bills = << >>
    /\ heap = << >>
    /\ clock = 1
    /\ created = 0
    /\ pc = [t \in Threads |-> "idle"]
    /\ local = [t \in Threads |-> NoLocal]
    /\ response = NoResponse
    /\ mu = NoLock
    /\ wf = NoWorkflow
    /\ encore = NoEncore

\* The state after CreateBill(USD) and three AddLineItem(100.00 USD) on the bill,
\* all at the clock reading 1: the third append has allocated an array of
\* capacity 4, of which the stored slice uses 3.
GrownItem ==
    [ID |-> 1, Description |-> "Service fee", Amount |-> 10000,
     Currency |-> CurrencyUSD, CreatedAt |-> 1]

InitGrown ==
    /\ bills = (1 :> [ID |-> 1, Status |-> BillStatusOpen, Currency |-> CurrencyUSD,
                      TotalAmount |-> 30000, LineItems |-> [arr |-> 1, len |-> 3],
                      CreatedAt |-> 1, ClosedAt |-> Nil])
    /\ heap = (1 :> [cap |-> 4, elems |-> <<GrownItem, GrownItem, GrownItem>>])
    /\ clock = 1
    /\ created = 0
    /\ pc = [t \in Threads |-> "idle"]
    /\ local = [t \in Threads |-> NoLocal]
    /\ response = NoResponse
    /\ mu = NoLock
    /\ wf = NoWorkflow
    /\ encore = NoEncore

----------------------------------------------------------------------------
(* Actions *)

\* the calls of AddLineItem that have passed their checks and not yet appended
Pending == Cardinality({t \in Threads : pc[t] = "add_append"})

\* the environment: time passes
Tick ==
    /\ UNCHANGED <<mu, wf, encore>>
    /\ clock < MaxClock
    /\ clock' = clock + 1
    /\ response' = NoResponse
    /\ UNCHANGED <<bills, heap, created, pc, local>>

NewBill(currency) ==
    [ID |-> generateID, Status |-> BillStatusOpen, Currency |-> currency,
     TotalAmount |-> 0, LineItems |-> EmptySlice, CreatedAt |-> Now, ClosedAt |-> Nil]

\* a faulty variant: stores the bill before it validates the currency
CreateBill_StoreFirst(t, currency) ==
    /\ UNCHANGED <<mu, wf, encore>>
    /\ pc[t] = "idle"
    /\ LET cur == DefaultCurrency(currency)
           bill == NewBill(cur) IN
       /\ created + Pending < MaxIDs
       /\ created' = created + 1
       /\ bills' = Create(bills, bill)
       /\ IF ~IsSupported(cur)
          THEN Return(t, "CreateBill", 0, currency, UnsupportedCurrency, NoBill,
                      bills', heap)
          ELSE Return(t, "CreateBill", bill.ID, currency, NoError, bill,
                      bills', heap)
       /\ UNCHANGED clock

CreateBill(t, currency) ==
    /\ UNCHANGED <<mu, wf, encore>>
    /\ pc[t] = "idle"
    /\ LET cur == DefaultCurrency(currency) IN
       IF ~IsSupported(cur)
       THEN /\ Return(t, "CreateBill", 0, currency, UnsupportedCurrency, NoBill,
                      bills, heap)
            /\ UNCHANGED <<bills, clock, created>>
       ELSE LET bill == NewBill(cur) IN
            /\ created + Pending < MaxIDs
            /\ created' = created + 1
            /\ bills' = Create(bills, bill)
            /\ Return(t, "CreateBill", bill.ID, currency, NoError, bill,
                      bills', heap)
            /\ UNCHANGED clock

\* a faulty variant: does not look at the status of the bill
AddLineItemCheck_NoStatus(bill, currency) ==
    IF bill = NoBill THEN BillNotFound
    ELSE IF ~IsSupported(currency) THEN UnsupportedCurrency
    ELSE NoError

\* a faulty variant: validates the currency before it looks at the bill
AddLineItemCheck_CurrencyFirst(bill, currency) ==
    IF ~IsSupported(currency) THEN UnsupportedCurrency
    ELSE IF bill = NoBill THEN BillNotFound
    ELSE IF bill.Status = BillStatusClosed THEN BillClosed
    ELSE NoError

\* the error AddLineItem returns for the bill it read, if any (lines 58-68)
AddLineItemCheck(bill, currency) ==
    IF bill = NoBill THEN BillNotFound
    ELSE IF bill.Status = BillStatusClosed THEN BillClosed
    ELSE IF ~IsSupported(currency) THEN UnsupportedCurrency
    ELSE NoError

\* AddLineItem up to and including the checks on the bill read (lines 54-68)
AddLineItem(t, billID, description, amount, currency) ==
    /\ UNCHANGED <<mu, wf, encore>>
    /\ pc[t] = "idle"
    /\ LET bill == Get(bills, billID)
           err == AddLineItemCheck(bill, currency) IN
       /\ IF err # NoError
          THEN Return(t, "AddLineItem", billID, currency, err, NoBill, bills, heap)
          ELSE /\ created + Pending < MaxIDs
               /\ pc' = [pc EXCEPT ![t] = "add_append"]
               /\ local' = [local EXCEPT ![t] =
                              [bill |-> bill, Description |-> description,
                               Amount |-> amount, Currency |-> currency,
                               Status |-> ""]]
               /\ response' = NoResponse
               /\ UNCHANGED heap
    /\ UNCHANGED <<bills, clock, created>>

NewLineItem(req) ==
    [ID |-> generateID, Description |-> req.Description, Amount |-> req.Amount,
     Currency |-> req.Currency, CreatedAt |-> Now]

\* AddLineItem from the construction of the line item to the new total
\* (lines 70-81): the append writes to the heap
AddLineItemAppend(t) ==
    /\ UNCHANGED <<mu, wf, encore>>
    /\ pc[t] = "add_append"
    /\ LET bill == local[t].bill
           app == AppendSlice(heap, bill.LineItems, NewLineItem(local[t]))
           total == convertAndAdd(bill.TotalAmount, bill.Currency,
                                  local[t].Amount, local[t].Currency)
       IN
       /\ local' = [local EXCEPT ![t].bill =
                        [bill EXCEPT !.LineItems = app.slice, !.TotalAmount = total]]
       /\ heap' = Collect(app.heap, bills, local')
    /\ created' = created + 1
    /\ pc' = [pc EXCEPT ![t] = "add_update"]
    /\ response' = NoResponse
    /\ UNCHANGED <<bills, clock>>

\* AddLineItem's Update and return (lines 83-87)
AddLineItemUpdate(t) ==
    /\ UNCHANGED <<mu, wf, encore>>
    /\ pc[t] = "add_update"
    /\ LET bill == local[t].bill IN
       /\ bills' = Update(bills, bill)
       /\ Return(t, "AddLineItem", bill.ID, local[t].Currency, NoError, bill,
                 bills', heap)
    /\ UNCHANGED <<clock, created>>

\* a faulty variant: does not look at whether the bill was found
CloseBillCheck_NoLookup(bill) ==
    IF bill # NoBill /\ bill.Status = BillStatusClosed THEN BillClosed
    ELSE NoError

\* a faulty variant: closing a Closed bill is no error
CloseBillCheck_Idempotent(bill) ==
    IF bill = NoBill THEN BillNotFound
    ELSE NoError

\* the error CloseBill returns for the bill it read, if any (lines 96-102)
CloseBillCheck(bill) ==
    IF bill = NoBill THEN BillNotFound
    ELSE IF bill.Status = BillStatusClosed THEN BillClosed
    ELSE NoError

\* CloseBill up to and including the checks on the bill read (lines 92-102)
CloseBill(t, billID) ==
    /\ UNCHANGED <<mu, wf, encore>>
    /\ pc[t] = "idle"
    /\ LET bill == Get(bills, billID)
           err == CloseBillCheck(bill) IN
       IF err # NoError
       THEN Return(t, "CloseBill", billID, "", err, NoBill, bills, heap)
       ELSE /\ pc' = [pc EXCEPT ![t] = "close_update"]
            /\ local' = [local EXCEPT ![t] = [NoLocal EXCEPT !.bill = bill]]
            /\ response' = NoResponse
            /\ UNCHANGED heap
    /\ UNCHANGED <<bills, clock, created>>

\* a faulty variant: sets the status and forgets the closing time
AsClosed_NoClosedAt(bill) ==
    [bill EXCEPT !.Status = BillStatusClosed]

\* the bill CloseBill hands to Update (lines 104-106)
AsClosed(bill) ==
    [bill EXCEPT !.Status = BillStatusClosed, !.ClosedAt = Now]

\* CloseBill from time.Now() to the return (lines 104-112)
CloseBillUpdate(t) ==
    /\ UNCHANGED <<mu, wf, encore>>
    /\ pc[t] = "close_update"
    /\ LET bill == AsClosed(local[t].bill) IN
       /\ bills' = Update(bills, bill)
       /\ Return(t, "CloseBill", bill.ID, "", NoError, bill, bills', heap)
    /\ UNCHANGED <<clock, created>>

\* a faulty variant: does not look at whether the bill was found
GetBill_NoCheck(t, billID) ==
    /\ UNCHANGED <<mu, wf, encore>>
    /\ pc[t] = "idle"
    /\ Return(t, "GetBill", billID, "", NoError, Get(bills, billID), bills, heap)
    /\ UNCHANGED <<bills, clock, created>>

GetBill(t, billID) ==
    /\ UNCHANGED <<mu, wf, encore>>
    /\ pc[t] = "idle"
    /\ LET bill == Get(bills, billID) IN
       IF bill = NoBill
       THEN Return(t, "GetBill", billID, "", BillNotFound, NoBill, bills, heap)
       ELSE Return(t, "GetBill", billID, "", NoError, bill, bills, heap)
    /\ UNCHANGED <<bills, clock, created>>

ListBills(t, status) ==
    /\ UNCHANGED <<mu, wf, encore>>
    /\ pc[t] = "idle"
    /\ response' = [op |-> "ListBills", id |-> 0, currency |-> "",
                    status |-> status, err |-> NoError,
                    bill |-> View(heap, NoBill),
                    list |-> {View(heap, bill) : bill \in List(bills, status)}]
    /\ UNCHANGED <<bills, heap, clock, created, pc, local>>

Others ==
    \/ \E t \in Threads, billID \in IDInputs, description \in Descriptions,
          amount \in Amounts, currency \in CurrencyInputs :
            AddLineItem(t, billID, description, amount, currency)
    \/ \E t \in Threads : AddLineItemAppend(t)
    \/ \E t \in Threads : AddLineItemUpdate(t)
    \/ \E t \in Threads, billID \in IDInputs : CloseBill(t, billID)
    \/ \E t \in Threads : CloseBillUpdate(t)
    \/ \E t \in Threads, billID \in IDInputs : GetBill(t, billID)
    \/ \E t \in Threads, status \in StatusInputs : ListBills(t, status)

Next ==
    \/ Tick
    \/ \E t \in Threads, currency \in CurrencyInputs : CreateBill(t, currency)
    \/ Others

Spec == Init /\ [][Next]_vars

\* The executions in which the clock has advanced between any two CreateBill
\* calls that generate an identifier, so that no two bills share one.
CreateBillDistinct(t, currency) ==
    /\ IsSupported(DefaultCurrency(currency)) => generateID \notin DOMAIN bills
    /\ CreateBill(t, currency)

NextDistinctIDs ==
    \/ Tick
    \/ \E t \in Threads, currency \in CurrencyInputs : CreateBillDistinct(t, currency)
    \/ Others

SpecDistinctIDs == Init /\ [][NextDistinctIDs]_vars

\* The executions from a bill that holds three line items, with distinct bill
\* identifiers.
SpecGrown == InitGrown /\ [][NextDistinctIDs]_vars

TypeOK ==
    /\ clock \in 1 .. MaxClock
    /\ created \in 0 .. MaxIDs
    /\ DOMAIN bills \subseteq 1 .. MaxClock
    /\ \A t \in Threads :
         pc[t] \in {"idle", "add_append", "add_update", "close_update",
                   "create_lock", "add_get_rlock", "close_get_rlock",
                   "getbill_rlock", "list_rlock", "create_locked",
                   "add_update_locked", "close_update_locked", "add_get_locked",
                   "close_get_locked", "getbill_locked", "list_locked"}
    /\ mu.writer \in BOOLEAN
    /\ mu.readers \in 0 .. Cardinality(Threads)
    /\ \A a \in DOMAIN heap : Len(heap[a].elems) <= heap[a].cap

----------------------------------------------------------------------------
(* What a step is, read off the state before and after it *)

\* the step returns from a call that made no earlier step: the call began and
\* ended in this step
ReturnsAtOnce(op) ==
    /\ response'.op = op
    /\ pc' = pc

\* the step is thread t's Get of AddLineItem, and the call goes on to its append
AddProceeds(t) == pc[t] = "idle" /\ pc'[t] = "add_append"

\* the step is thread t's append of AddLineItem
AddAppends(t) == pc[t] = "add_append" /\ pc'[t] = "add_update"

\* the step is thread t's Update of AddLineItem
AddUpdates(t) == pc[t] = "add_update" /\ pc'[t] = "idle"

\* the step is thread t's Get of CloseBill, and the call goes on to its Update
CloseProceeds(t) == pc[t] = "idle" /\ pc'[t] = "close_update"

\* the step is thread t's Update of CloseBill
CloseUpdates(t) == pc[t] = "close_update" /\ pc'[t] = "idle"

----------------------------------------------------------------------------
(* Claims *)

\* C1: once the stored status of a bill is Closed it is Closed in every later
\* state: no step takes a stored bill from Closed to another status.
C1_ClosedIsTerminal ==
    [][\A id \in DOMAIN bills :
         bills[id].Status = BillStatusClosed
            => id \in DOMAIN bills' /\ bills'[id].Status = BillStatusClosed]_vars

\* C2: an AddLineItem call that reads a stored Closed bill returns BillClosed
\* whatever its description, amount and currency, never goes on to its append,
\* and leaves the store (so the bill's line items and total) as it was.
C2_AddToClosedFails ==
    [][\A id \in DOMAIN bills :
         bills[id].Status = BillStatusClosed
            => /\ \A t \in Threads : ~(AddProceeds(t) /\ local'[t].bill.ID = id)
               /\ (ReturnsAtOnce("AddLineItem") /\ response'.id = id)
                    => /\ response'.err = BillClosed
                       /\ response'.bill = View(heap, NoBill)
                       /\ bills' = bills
                       /\ Store' = Store]_vars

\* C2 witness: AddLineItem in a currency that is not supported has just returned
\* BillClosed for a stored Closed bill that holds a line item.
C2_Witness ==
    /\ response.op = "AddLineItem"
    /\ response.err = BillClosed
    /\ response.currency = "EUR"
    /\ response.id \in DOMAIN bills
    /\ Store[response.id].Status = BillStatusClosed
    /\ Len(Store[response.id].LineItems) = 1

\* C3: CloseBill that reads a stored Open bill goes on to store it Closed with
\* closedAt present and returns the stored bill without error; CloseBill that
\* reads a Closed bill returns BillClosed and CloseBill of an identifier that is
\* not stored returns BillNotFound, both leaving the store as it was.
C3_CloseBill ==
    [][/\ \A t \in Threads :
            CloseProceeds(t)
                => LET bill == local'[t].bill IN
                   /\ bill.ID \in DOMAIN bills
                   /\ bill = bills[bill.ID]
                   /\ bill.Status = BillStatusOpen
       /\ \A t \in Threads :
            CloseUpdates(t)
                => LET id == local[t].bill.ID IN
                   /\ Store'[id].Status = BillStatusClosed
                   /\ Store'[id].ClosedAt # Nil
                   /\ response'.op = "CloseBill"
                   /\ response'.id = id
                   /\ response'.err = NoError
                   /\ response'.bill = Store'[id]
       /\ ReturnsAtOnce("CloseBill")
            => /\ bills' = bills
               /\ Store' = Store
               /\ response'.bill = View(heap, NoBill)
               /\ IF response'.id \in DOMAIN bills
                  THEN /\ bills[response'.id].Status = BillStatusClosed
                       /\ response'.err = BillClosed
                  ELSE response'.err = BillNotFound]_vars

\* C3 witness: a second CloseBill has just returned BillClosed for a stored bill
\* that is Closed with its closedAt present.
C3_Witness ==
    /\ response.op = "CloseBill"
    /\ response.err = BillClosed
    /\ response.id \in DOMAIN bills
    /\ bills[response.id].Status = BillStatusClosed
    /\ bills[response.id].ClosedAt # Nil

\* what one line item contributes to the total of a bill in billCurrency: the raw
\* amount in the bill's currency, the amount converted to USD otherwise
Accrued(item, billCurrency) ==
    IF item.Currency = billCurrency THEN item.Amount
    ELSE IF item.Currency = "USD" THEN item.Amount
    ELSE (37 * item.Amount) \div 100

RECURSIVE Recomputed(_, _)
Recomputed(items, billCurrency) ==
    IF items = <<>> THEN 0
    ELSE Recomputed(SubSeq(items, 1, Len(items) - 1), billCurrency)
            + Accrued(items[Len(items)], billCurrency)

\* C4: in every reachable state the total of every stored bill equals the total
\* recomputed from scratch over its stored line items.
C4_TotalIsRecomputed ==
    \A id \in DOMAIN bills :
        Store[id].TotalAmount = Recomputed(Store[id].LineItems, Store[id].Currency)

\* C5: a successful AddLineItem read a stored Open bill; its append extends the
\* bill it read by exactly one line item, carrying the description, amount and
\* currency given, and changes the total by the amount (same currency), by 0.37
\* of the amount (GEL item, USD bill) or by the amount (USD item, GEL bill),
\* leaving status, currency, id and closedAt alone; the bill it stores and
\* returns ends with the line item carrying the description, amount and currency
\* given.
C5_AddLineItem ==
    [][\A t \in Threads :
        /\ AddProceeds(t)
            => LET bill == local'[t].bill IN
               /\ bill.ID \in DOMAIN bills
               /\ bill = bills[bill.ID]
               /\ bill.Status = BillStatusOpen
        /\ AddAppends(t)
            => LET old == View(heap, local[t].bill)
                   new == View(heap', local'[t].bill)
                   n == Len(old.LineItems)
                   delta == IF local[t].Currency = old.Currency THEN local[t].Amount
                            ELSE IF local[t].Currency = "GEL" /\ old.Currency = "USD"
                            THEN (37 * local[t].Amount) \div 100
                            ELSE local[t].Amount
               IN
               /\ Len(new.LineItems) = n + 1
               /\ SubSeq(new.LineItems, 1, n) = old.LineItems
               /\ new.LineItems[n + 1].Description = local[t].Description
               /\ new.LineItems[n + 1].Amount = local[t].Amount
               /\ new.LineItems[n + 1].Currency = local[t].Currency
               /\ new.TotalAmount = old.TotalAmount + delta
               /\ new.Status = old.Status
               /\ new.Currency = old.Currency
               /\ new.ID = old.ID
               /\ new.ClosedAt = old.ClosedAt
        /\ AddUpdates(t)
            => LET new == Store'[local[t].bill.ID]
                   last == new.LineItems[Len(new.LineItems)]
               IN
               /\ new = View(heap, local[t].bill)
               /\ last.Description = local[t].Description
               /\ last.Amount = local[t].Amount
               /\ last.Currency = local[t].Currency
               /\ response'.op = "AddLineItem"
               /\ response'.err = NoError
               /\ response'.bill = new]_vars

\* C6: a bill is closed exactly once: no CloseBill returns success for a bill
\* whose stored closedAt is already set, and a stored closedAt, once set, neither
\* changes nor becomes absent.
C6_ClosedExactlyOnce ==
    [][\A id \in DOMAIN bills :
         bills[id].ClosedAt # Nil
            => /\ id \in DOMAIN bills'
               /\ bills'[id].ClosedAt = bills[id].ClosedAt
               /\ ~(/\ response'.op = "CloseBill"
                    /\ response'.id = id
                    /\ response'.err = NoError)]_vars

\* C7: in every reachable state, closedAt of a stored bill is present if and only
\* if its status is Closed.
C7_ClosedAtIffClosed ==
    \A id \in DOMAIN bills :
        (bills[id].ClosedAt # Nil) <=> (bills[id].Status = BillStatusClosed)

\* C7 witness: the store holds a Closed bill with closedAt present and an Open
\* bill without.
C7_Witness ==
    \E id1, id2 \in DOMAIN bills :
        /\ bills[id1].Status = BillStatusClosed /\ bills[id1].ClosedAt # Nil
        /\ bills[id2].Status = BillStatusOpen /\ bills[id2].ClosedAt = Nil

\* C8: a successful CreateBill stores and returns a bill with a fresh identifier
\* (one that no stored bill has), status Open, no line items, total 0, closedAt
\* absent and the requested currency, USD when none was requested.
C8_CreateBill ==
    [][(response'.op = "CreateBill" /\ response'.err = NoError)
        => LET bill == response'.bill IN
           /\ bill.ID # 0
           /\ bill.ID = response'.id
           /\ bill.ID \notin DOMAIN bills
           /\ bill.ID \in DOMAIN bills'
           /\ Store'[bill.ID] = bill
           /\ bill.Status = BillStatusOpen
           /\ bill.LineItems = <<>>
           /\ bill.TotalAmount = 0
           /\ bill.ClosedAt = Nil
           /\ bill.Currency = (IF response'.currency = "" THEN "USD"
                               ELSE response'.currency)]_vars

\* C9: CreateBill returns UnsupportedCurrency exactly for a non-empty currency
\* outside {GEL, USD} and then stores nothing; AddLineItem on a stored Open bill
\* with a currency outside {GEL, USD}, the empty one included, returns
\* UnsupportedCurrency and never goes on to its append; every stored bill and
\* line item has its currency in {GEL, USD}.
C9_CurrencyValidation ==
    [][/\ response'.op = "CreateBill"
            => /\ response'.err = UnsupportedCurrency
                    <=> response'.currency \notin {"", "GEL", "USD"}
               /\ response'.err = UnsupportedCurrency
                    => bills' = bills /\ Store' = Store
       /\ ( /\ ReturnsAtOnce("AddLineItem")
            /\ response'.id \in DOMAIN bills
            /\ bills[response'.id].Status = BillStatusOpen )
            => /\ response'.err = UnsupportedCurrency
               /\ response'.currency \notin {"GEL", "USD"}
               /\ bills' = bills
               /\ Store' = Store
       /\ \A t \in Threads :
            AddProceeds(t) => local'[t].Currency \in {"GEL", "USD"}
       /\ \A id \in DOMAIN bills' :
            /\ Store'[id].Currency \in {"GEL", "USD"}
            /\ \A i \in 1 .. Len(Store'[id].LineItems) :
                 Store'[id].LineItems[i].Currency \in {"GEL", "USD"}]_vars

\* C9 witness: AddLineItem with the empty currency has just returned
\* UnsupportedCurrency for a stored Open bill.
C9_Witness ==
    /\ response.op = "AddLineItem"
    /\ response.err = UnsupportedCurrency
    /\ response.currency = ""
    /\ response.id \in DOMAIN bills
    /\ bills[response.id].Status = BillStatusOpen

\* C10: a step that returns an error writes nothing to the store, and the call
\* it ends made no earlier step, so the failed call as a whole wrote nothing.
C10_FailureWritesNothing ==
    [][response'.err # NoError
        => /\ response'.err \in {BillNotFound, BillClosed, UnsupportedCurrency}
           /\ response'.op \in {"CreateBill", "AddLineItem", "CloseBill", "GetBill"}
           /\ bills' = bills
           /\ Store' = Store
           /\ pc' = pc]_vars

\* C10 witness: CreateBill has just returned UnsupportedCurrency while the store
\* holds a bill with a line item.
C10_Witness ==
    /\ response.op = "CreateBill"
    /\ response.err = UnsupportedCurrency
    /\ \E id \in DOMAIN bills : Len(Store[id].LineItems) = 1

\* C11: GetBill returns BillNotFound exactly when no bill is stored under the
\* identifier given; otherwise it returns, without error, the stored bill as it
\* reads at that moment (id, status, currency, total, line items, closedAt); it
\* never changes the store.
C11_GetBill ==
    [][response'.op = "GetBill"
        => /\ bills' = bills
           /\ Store' = Store
           /\ response'.err \in {NoError, BillNotFound}
           /\ response'.err = BillNotFound <=> response'.id \notin DOMAIN bills
           /\ response'.err = BillNotFound => response'.bill = View(heap, NoBill)
           /\ response'.err = NoError => response'.bill = Store[response'.id]]_vars

\* C11 witness: GetBill has just returned a stored Closed bill that holds a line
\* item, while another identifier is not stored.
C11_Witness ==
    /\ response.op = "GetBill"
    /\ response.err = NoError
    /\ response.id \in DOMAIN bills
    /\ response.bill.Status = BillStatusClosed
    /\ Len(response.bill.LineItems) = 1
    /\ response.bill.ClosedAt # Nil
    /\ \E id \in IDInputs : id \notin DOMAIN bills

\* the stored bills, as read, whose status string equals the filter
StoredWithStatus(status) ==
    {Store[id] : id \in {i \in DOMAIN bills : Store[i].Status = status}}

\* C12: ListBills never fails and changes nothing; it returns exactly the
\* stored bills whose status string equals the filter, every stored bill when
\* the filter is empty; the results for "open" and for "closed" are disjoint
\* and their counts sum to the count of the result for "".
C12_ListBills ==
    [][/\ response'.op = "ListBills"
            => /\ response'.err = NoError
               /\ bills' = bills
               /\ Store' = Store
               /\ response'.list =
                    IF response'.status = ""
                    THEN {Store[id] : id \in DOMAIN bills}
                    ELSE StoredWithStatus(response'.status)
       /\ List(bills, "open") \cap List(bills, "closed") = {}
       /\ Cardinality(List(bills, "open")) + Cardinality(List(bills, "closed"))
            = Cardinality(List(bills, ""))
       /\ Cardinality(List(bills, "")) = Cardinality(DOMAIN bills)]_vars

\* C12 witness: ListBills("closed") has just returned one bill while the store
\* holds two, one Open and one Closed.
C12_Witness ==
    /\ response.op = "ListBills"
    /\ response.status = "closed"
    /\ Cardinality(response.list) = 1
    /\ Cardinality(DOMAIN bills) = 2
    /\ \E id \in DOMAIN bills : bills[id].Status = BillStatusOpen

\* the step is a CreateBill that returns success
CreateSucceeds == response'.op = "CreateBill" /\ response'.err = NoError

\* C13: no step removes a bill; a successful CreateBill leaves its bill stored
\* and adds one bill to the store, and no other step changes which bills are
\* stored: the number of stored bills is the number of successful CreateBill
\* calls so far.
C13_BillsPersist ==
    [][/\ DOMAIN bills \subseteq DOMAIN bills'
       /\ CreateSucceeds
            => /\ response'.id \in DOMAIN bills'
               /\ Cardinality(DOMAIN bills') = Cardinality(DOMAIN bills) + 1
       /\ ~CreateSucceeds => DOMAIN bills' = DOMAIN bills]_vars

\* the places of the stored line items: <<bill, index>>
ItemPlaces ==
    UNION {{<<id, i>> : i \in 1 .. Len(Store[id].LineItems)} : id \in DOMAIN bills}

ItemIDAt(p) == Store[p[1]].LineItems[p[2]].ID

\* no two stored line items share an identifier, and none has the identifier
\* of a stored bill
UniqueIDs ==
    /\ \A p, q \in ItemPlaces : p # q => ItemIDAt(p) # ItemIDAt(q)
    /\ \A p \in ItemPlaces : ItemIDAt(p) \notin DOMAIN bills

\* C14: identifiers are unique: a successful CreateBill never gets the
\* identifier of a stored bill (Create never overwrites), and after every step
\* no stored line item has the identifier of another line item or of a bill.
C14_UniqueIDs ==
    [][/\ CreateSucceeds => response'.id \notin DOMAIN bills
       /\ UniqueIDs']_vars

\* C15: the currency of a stored bill never changes: after every step every
\* bill stored before it is stored with the currency it had.
C15_CurrencyIsFixed ==
    [][\A id \in DOMAIN bills :
         id \in DOMAIN bills' /\ bills'[id].Currency = bills[id].Currency]_vars

\* C16: what a caller does to the bill that Get returned to it changes neither
\* the store nor the bill another caller holds: the append of AddLineItem, a
\* step before its Update, leaves every stored bill, line items included, and
\* every other thread's bill as they read before it.
C16_GetReturnsSnapshot ==
    [][\A t \in Threads :
         AddAppends(t)
            => /\ Store' = Store
               /\ \A u \in Threads \ {t} :
                    View(heap', local'[u].bill) = View(heap, local[u].bill)]_vars

\* C17: when the Update of an AddLineItem runs after another call has stored
\* a line item on the bill since this call's Get (the stored sequence is as
\* long as this call's own), the stored bill afterwards holds the earlier
\* stored items, this call's line item in place of the other call's, and this
\* call's total; the call returns success.
C17_LostUpdate ==
    [][\A t \in Threads :
         LET id == local[t].bill.ID
             n == local[t].bill.LineItems.len
         IN
         ( /\ AddUpdates(t)
           /\ id \in DOMAIN bills
           /\ Len(Store[id].LineItems) = n )
            => /\ response'.op = "AddLineItem"
               /\ response'.err = NoError
               /\ Len(Store'[id].LineItems) = n
               /\ SubSeq(Store'[id].LineItems, 1, n - 1)
                    = SubSeq(Store[id].LineItems, 1, n - 1)
               /\ Store'[id].LineItems[n].Description = local[t].Description
               /\ Store'[id].LineItems[n].Amount = local[t].Amount
               /\ Store'[id].LineItems[n].Currency = local[t].Currency
               /\ Store'[id].TotalAmount = local[t].bill.TotalAmount]_vars

----------------------------------------------------------------------------
(* The repository lock: every repository call is two steps, the Lock or    *)
(* RLock that may have to wait, and the body with the deferred Unlock or   *)
(* RUnlock.  What the service does between two repository calls is local   *)
(* and runs in the step of the call before it, except the append.          *)

\* where a thread is about to call a repository operation that takes r.mu.Lock()
\* a faulty variant: Update takes the read lock
WriteLockPCs_UpdateReads == {"create_lock"}

WriteLockPCs == {"create_lock", "add_update", "close_update"}

\* where a thread is about to call a repository operation
LockPCs ==
    {"create_lock", "add_update", "close_update",
     "add_get_rlock", "close_get_rlock", "getbill_rlock", "list_rlock"}

\* where the thread is once it holds the lock
Inside ==
    [p \in LockPCs |->
        CASE p = "create_lock" -> "create_locked"
          [] p = "add_update" -> "add_update_locked"
          [] p = "close_update" -> "close_update_locked"
          [] p = "add_get_rlock" -> "add_get_locked"
          [] p = "close_get_rlock" -> "close_get_locked"
          [] p = "getbill_rlock" -> "getbill_locked"
          [] p = "list_rlock" -> "list_locked"]

InsidePCs == {Inside[p] : p \in LockPCs}
InsideWritePCs == {Inside[p] : p \in WriteLockPCs}

\* r.mu.Lock(): waits until no reader and no writer holds the lock
Lock(t) ==
    /\ pc[t] \in WriteLockPCs
    /\ ~mu.writer /\ mu.readers = 0
    /\ mu' = [mu EXCEPT !.writer = TRUE]
    /\ pc' = [pc EXCEPT ![t] = Inside[pc[t]]]
    /\ response' = NoResponse
    /\ UNCHANGED <<bills, heap, clock, created, local, wf, encore>>

\* r.mu.RLock(): waits until no writer holds the lock
RLock(t) ==
    /\ pc[t] \in LockPCs \ WriteLockPCs
    /\ ~mu.writer
    /\ mu' = [mu EXCEPT !.readers = @ + 1]
    /\ pc' = [pc EXCEPT ![t] = Inside[pc[t]]]
    /\ response' = NoResponse
    /\ UNCHANGED <<bills, heap, clock, created, local, wf, encore>>

\* a faulty variant: a reader returns without RUnlock
Unlocked_ReaderKeeps(t) ==
    IF pc[t] \in InsideWritePCs
    THEN [mu EXCEPT !.writer = FALSE]
    ELSE mu

\* the lock after thread t's deferred r.mu.Unlock() or r.mu.RUnlock()
Unlocked(t) ==
    IF pc[t] \in InsideWritePCs
    THEN [mu EXCEPT !.writer = FALSE]
    ELSE [mu EXCEPT !.readers = @ - 1]

\* the calls that have yet to call generateID
PendingIDs ==
    Cardinality({t \in Threads :
        pc[t] \in {"add_get_rlock", "add_get_locked", "add_append"}})

\* CreateBill up to its call of repo.Create (lines 30-45)
CreateBillEnter(t, currency) ==
    /\ pc[t] = "idle"
    /\ LET cur == DefaultCurrency(currency) IN
       IF ~IsSupported(cur)
       THEN /\ Return(t, "CreateBill", 0, currency, UnsupportedCurrency, NoBill,
                      bills, heap)
            /\ UNCHANGED created
       ELSE /\ created + PendingIDs < MaxIDs
            /\ created' = created + 1
            /\ pc' = [pc EXCEPT ![t] = "create_lock"]
            /\ local' = [local EXCEPT ![t] =
                            [NoLocal EXCEPT !.bill = NewBill(cur),
                                            !.Currency = currency]]
            /\ response' = NoResponse
            /\ UNCHANGED heap
    /\ UNCHANGED <<bills, clock, mu, wf, encore>>

\* repo.Create under the lock, and CreateBill's return (lines 45-49)
CreateLocked(t) ==
    /\ pc[t] = "create_locked"
    /\ mu' = Unlocked(t)
    /\ bills' = Create(bills, local[t].bill)
    /\ Return(t, "CreateBill", local[t].bill.ID, local[t].Currency, NoError,
              local[t].bill, bills', heap)
    /\ UNCHANGED <<clock, created, wf, encore>>

\* AddLineItem up to its call of repo.Get (lines 53-54)
AddLineItemEnter(t, billID, description, amount, currency) ==
    /\ pc[t] = "idle"
    /\ created + PendingIDs < MaxIDs
    /\ pc' = [pc EXCEPT ![t] = "add_get_rlock"]
    /\ local' = [local EXCEPT ![t] =
                    [bill |-> [NoBill EXCEPT !.ID = billID],
                     Description |-> description, Amount |-> amount,
                     Currency |-> currency, Status |-> ""]]
    /\ response' = NoResponse
    /\ UNCHANGED <<bills, heap, clock, created, mu, wf, encore>>

\* repo.Get under the lock, and AddLineItem's checks (lines 54-68)
AddGetLocked(t) ==
    /\ pc[t] = "add_get_locked"
    /\ mu' = Unlocked(t)
    /\ LET bill == Get(bills, local[t].bill.ID)
           err == AddLineItemCheck(bill, local[t].Currency) IN
       IF err # NoError
       THEN Return(t, "AddLineItem", local[t].bill.ID, local[t].Currency, err,
                   NoBill, bills, heap)
       ELSE /\ pc' = [pc EXCEPT ![t] = "add_append"]
            /\ local' = [local EXCEPT ![t].bill = bill]
            /\ response' = NoResponse
            /\ UNCHANGED heap
    /\ UNCHANGED <<bills, clock, created, wf, encore>>

\* repo.Update under the lock, and AddLineItem's return (lines 83-87)
AddUpdateLocked(t) ==
    /\ pc[t] = "add_update_locked"
    /\ mu' = Unlocked(t)
    /\ bills' = Update(bills, local[t].bill)
    /\ Return(t, "AddLineItem", local[t].bill.ID, local[t].Currency, NoError,
              local[t].bill, bills', heap)
    /\ UNCHANGED <<clock, created, wf, encore>>

\* CloseBill up to its call of repo.Get (lines 91-92)
CloseBillEnter(t, billID) ==
    /\ pc[t] = "idle"
    /\ pc' = [pc EXCEPT ![t] = "close_get_rlock"]
    /\ local' = [local EXCEPT ![t] =
                    [NoLocal EXCEPT !.bill = [NoBill EXCEPT !.ID = billID]]]
    /\ response' = NoResponse
    /\ UNCHANGED <<bills, heap, clock, created, mu, wf, encore>>

\* repo.Get under the lock, CloseBill's checks and assignments (lines 92-106)
CloseGetLocked(t) ==
    /\ pc[t] = "close_get_locked"
    /\ mu' = Unlocked(t)
    /\ LET bill == Get(bills, local[t].bill.ID)
           err == CloseBillCheck(bill) IN
       IF err # NoError
       THEN Return(t, "CloseBill", local[t].bill.ID, "", err, NoBill, bills, heap)
       ELSE /\ pc' = [pc EXCEPT ![t] = "close_update"]
            /\ local' = [local EXCEPT ![t].bill = bill]
            /\ response' = NoResponse
            /\ UNCHANGED heap
    /\ UNCHANGED <<bills, clock, created, wf, encore>>

\* repo.Update under the lock, and CloseBill's return (lines 104-112)
CloseUpdateLocked(t) ==
    /\ pc[t] = "close_update_locked"
    /\ mu' = Unlocked(t)
    /\ LET bill == AsClosed(local[t].bill) IN
       /\ bills' = Update(bills, bill)
       /\ Return(t, "CloseBill", bill.ID, "", NoError, bill, bills', heap)
    /\ UNCHANGED <<clock, created, wf, encore>>

\* GetBill up to its call of repo.Get (lines 116-117)
GetBillEnter(t, billID) ==
    /\ pc[t] = "idle"
    /\ pc' = [pc EXCEPT ![t] = "getbill_rlock"]
    /\ local' = [local EXCEPT ![t] =
                    [NoLocal EXCEPT !.bill = [NoBill EXCEPT !.ID = billID]]]
    /\ response' = NoResponse
    /\ UNCHANGED <<bills, heap, clock, created, mu, wf, encore>>

\* repo.Get under the lock, and GetBill's return (lines 117-124)
GetBillLocked(t) ==
    /\ pc[t] = "getbill_locked"
    /\ mu' = Unlocked(t)
    /\ LET bill == Get(bills, local[t].bill.ID) IN
       IF bill = NoBill
       THEN Return(t, "GetBill", local[t].bill.ID, "", BillNotFound, NoBill,
                   bills, heap)
       ELSE Return(t, "GetBill", local[t].bill.ID, "", NoError, bill, bills, heap)
    /\ UNCHANGED <<bills, clock, created, wf, encore>>

\* ListBills up to its call of repo.List (lines 128-129)
ListBillsEnter(t, status) ==
    /\ pc[t] = "idle"
    /\ pc' = [pc EXCEPT ![t] = "list_rlock"]
    /\ local' = [local EXCEPT ![t] = [NoLocal EXCEPT !.Status = status]]
    /\ response' = NoResponse
    /\ UNCHANGED <<bills, heap, clock, created, mu, wf, encore>>

\* repo.List under the lock, and ListBills's return (line 129)
ListBillsLocked(t) ==
    /\ pc[t] = "list_locked"
    /\ mu' = Unlocked(t)
    /\ response' = [op |-> "ListBills", id |-> 0, currency |-> "",
                    status |-> local[t].Status, err |-> NoError,
                    bill |-> View(heap, NoBill),
                    list |-> {View(heap, bill) :
                                bill \in List(bills, local[t].Status)}]
    /\ pc' = [pc EXCEPT ![t] = "idle"]
    /\ local' = [local EXCEPT ![t] = NoLocal]
    /\ UNCHANGED <<bills, heap, clock, created, wf, encore>>

\* a service call begins
Enter(t) ==
    \/ \E currency \in CurrencyInputs : CreateBillEnter(t, currency)
    \/ \E billID \in IDInputs, description \in Descriptions,
          amount \in Amounts, currency \in CurrencyInputs :
            AddLineItemEnter(t, billID, description, amount, currency)
    \/ \E billID \in IDInputs : CloseBillEnter(t, billID)
    \/ \E billID \in IDInputs : GetBillEnter(t, billID)
    \/ \E status \in StatusInputs : ListBillsEnter(t, status)

\* a step of a call that has begun and is not waiting for the lock
Proceed(t) ==
    \/ CreateLocked(t)
    \/ AddGetLocked(t)
    \/ AddLineItemAppend(t)
    \/ AddUpdateLocked(t)
    \/ CloseGetLocked(t)
    \/ CloseUpdateLocked(t)
    \/ GetBillLocked(t)
    \/ ListBillsLocked(t)

\* Time stands still here: the clock reading plays no part in the locking.
NextLocked ==
    \/ \E t \in Threads : Enter(t)
    \/ \E t \in Threads : Lock(t)
    \/ \E t \in Threads : RLock(t)
    \/ \E t \in Threads : Proceed(t)

\* The scheduler runs every goroutine that can run, and sync.RWMutex hands the
\* lock to every goroutine that waits for it (a waiting writer keeps new
\* readers out, and a mutex in starvation mode goes to its longest waiter).
FairLocked ==
    \A t \in Threads :
        /\ WF_vars(Proceed(t))
        /\ SF_vars(Lock(t))
        /\ SF_vars(RLock(t))

SpecLocked == Init /\ [][NextLocked]_vars /\ FairLocked

\* the threads inside a repository operation, and those inside Create or Update
InStore == {t \in Threads : pc[t] \in InsidePCs}
InCreateOrUpdate ==
    {t \in Threads :
        pc[t] \in {"create_locked", "add_update_locked", "close_update_locked"}}

\* C18: a thread inside Create or Update is the only thread inside any
\* repository operation and holds the lock as its writer; the threads inside
\* Get or List hold it as readers, and several may be inside at once.
C18_StoreLocking ==
    /\ \A t \in InCreateOrUpdate : InStore = {t}
    /\ mu.writer <=> InCreateOrUpdate # {}
    /\ mu.readers = Cardinality(InStore \ InCreateOrUpdate)

\* C18 witness: two threads are inside Get and List at once, as two readers.
C18_Witness ==
    /\ pc["t1"] = "getbill_locked"
    /\ pc["t2"] = "list_locked"
    /\ mu.readers = 2
    /\ DOMAIN bills # {}

\* thread t waits for the lock and can take it
CanLock(t) ==
    IF pc[t] \in {"create_lock", "add_update", "close_update"}
    THEN ~mu.writer /\ mu.readers = 0
    ELSE ~mu.writer

\* C19: the lock is free whenever no thread is inside a repository operation
\* (every path releases it); a thread that waits for the lock can take it or
\* some thread inside will release it (no deadlock); and every call that has
\* begun returns.
C19_NoSuspension ==
    /\ [](InStore = {} => mu = NoLock)
    /\ [](\A t \in Threads :
            pc[t] \in LockPCs => CanLock(t) \/ InStore # {})
    /\ \A t \in Threads : (pc[t] # "idle") ~> (pc[t] = "idle")

\* C19 witness: GetBill has just returned BillNotFound and left the lock free,
\* while the other thread is about to take it for the Update of CloseBill.
C19_Witness ==
    /\ response.op = "GetBill"
    /\ response.err = BillNotFound
    /\ mu = NoLock
    /\ \E t \in Threads : pc[t] = "close_update"

----------------------------------------------------------------------------
(* workflow: RunBillingPeriodWorkflow.  One clock tick is one day.  The    *)
(* selector handles one ready case per Select call, any of the ready ones. *)

MaxSignals == 3     \* at most this many signals are sent to the workflow

PeriodInputs == {-1, 0, 1}      \* BillingPeriodInput.BillingPeriodDays
WorkflowCurrencies == {"GEL", "USD"}    \* BillingPeriodInput.Currency

\* the variables of the billing service
svars == <<bills, heap, created, pc, local, response, mu, encore>>

\* the workflow at its first Select (lines 46-100)
StartWorkflow(currency, days) ==
    [pc |-> "select", Status |-> "open", Currency |-> currency, TotalAmount |-> 0,
     LineItemCount |-> 0, StartedAt |-> Now, ClosedAt |-> Nil,
     BillingPeriodDays |-> days, timerHandled |-> FALSE,
     addLineItemChan |-> << >>, closeBillChan |-> 0, signals |-> 0,
     handled |-> << >>]

InitWorkflow ==
    /\ bills = << >>
    /\ heap = << >>
    /\ clock = 1
    /\ created = 0
    /\ pc = [t \in Threads |-> "idle"]
    /\ local = [t \in Threads |-> NoLocal]
    /\ response = NoResponse
    /\ mu = NoLock
    /\ encore = NoEncore
    /\ \E currency \in WorkflowCurrencies, days \in PeriodInputs :
         wf = StartWorkflow(currency, days)

\* a faulty variant: the timer never fires
TimerReady_Never(w) == FALSE

\* billingPeriodTimer is ready and not yet handled: the period has passed (at
\* once, for a period of zero or fewer days)
TimerReady(w) ==
    /\ ~w.timerHandled
    /\ w.BillingPeriodDays <= 0 \/ clock - w.StartedAt >= w.BillingPeriodDays

\* a client sends the add-line-item signal
WfSignalAddLineItem(amount, currency) ==
    /\ wf.pc = "select"
    /\ wf.signals < MaxSignals
    /\ wf' = [wf EXCEPT !.addLineItemChan =
                            Append(@, [Amount |-> amount, Currency |-> currency]),
                        !.signals = @ + 1]
    /\ UNCHANGED <<svars, clock>>

\* a client sends the close-bill signal
WfSignalCloseBill ==
    /\ wf.pc = "select"
    /\ wf.signals < MaxSignals
    /\ wf' = [wf EXCEPT !.closeBillChan = @ + 1, !.signals = @ + 1]
    /\ UNCHANGED <<svars, clock>>

\* Select handles the timer (lines 63-68)
WfTimer ==
    /\ wf.pc = "select" /\ wf.Status = "open"
    /\ TimerReady(wf)
    /\ wf' = [wf EXCEPT !.Status = "closed", !.ClosedAt = Now,
                        !.timerHandled = TRUE]
    /\ UNCHANGED <<svars, clock>>

\* a faulty variant: adds the amount whatever its currency
WfAddLineItem_AnyCurrency ==
    /\ wf.pc = "select" /\ wf.Status = "open"
    /\ wf.addLineItemChan # << >>
    /\ LET lineItem == Head(wf.addLineItemChan) IN
       wf' = [wf EXCEPT !.addLineItemChan = Tail(@),
                        !.handled = Append(@, lineItem),
                        !.LineItemCount = @ + 1,
                        !.TotalAmount = @ + lineItem.Amount]
    /\ UNCHANGED <<svars, clock>>

\* Select handles an add-line-item signal (lines 69-83); wf.handled records the
\* signals received by the callback, in order
WfAddLineItem ==
    /\ wf.pc = "select" /\ wf.Status = "open"
    /\ wf.addLineItemChan # << >>
    /\ LET lineItem == Head(wf.addLineItemChan) IN
       wf' = [wf EXCEPT !.addLineItemChan = Tail(@),
                        !.handled = Append(@, lineItem),
                        !.LineItemCount = @ + 1,
                        !.TotalAmount = IF lineItem.Currency = wf.Currency
                                        THEN @ + lineItem.Amount
                                        ELSE @]
    /\ UNCHANGED <<svars, clock>>

\* Select handles a close-bill signal (lines 84-89)
WfCloseBill ==
    /\ wf.pc = "select" /\ wf.Status = "open"
    /\ wf.closeBillChan > 0
    /\ wf' = [wf EXCEPT !.closeBillChan = @ - 1, !.Status = "closed",
                        !.ClosedAt = Now]
    /\ UNCHANGED <<svars, clock>>

\* selector.Select(ctx) (line 101)
WfSelect == WfTimer \/ WfAddLineItem \/ WfCloseBill

\* the loop ends and the workflow returns (lines 100-109)
WfReturn ==
    /\ wf.pc = "select" /\ wf.Status # "open"
    /\ wf' = [wf EXCEPT !.pc = "done"]
    /\ UNCHANGED <<svars, clock>>

NextWorkflow ==
    \/ Tick
    \/ \E amount \in Amounts, currency \in CurrencyInputs :
         WfSignalAddLineItem(amount, currency)
    \/ WfSignalCloseBill
    \/ WfSelect
    \/ WfReturn

\* Time passes, and the workflow is run whenever it has something to handle.
FairWorkflow == WF_vars(Tick) /\ WF_vars(WfSelect) /\ WF_vars(WfReturn)

SpecWorkflow == InitWorkflow /\ [][NextWorkflow]_vars /\ FairWorkflow

----------------------------------------------------------------------------
(* C21 *)

\* C21: the stored line-item sequence of a bill is append-only and keeps its
\* order: in every step every stored bill stays stored and the line items it had
\* before the step are a prefix, unchanged and in the same places, of the line
\* items it has after it.
C21_AppendOnly ==
    [][\A id \in DOMAIN bills :
          /\ id \in DOMAIN bills'
          /\ Len(Store[id].LineItems) <= Len(Store'[id].LineItems)
          /\ SubSeq(Store'[id].LineItems, 1, Len(Store[id].LineItems))
               = Store[id].LineItems]_vars

----------------------------------------------------------------------------
(* C22 *)

\* C22: AddLineItem checks existence, then status, then currency.  A call that
\* returns without appending returns BillNotFound when the id is not stored,
\* whatever the currency; BillClosed when the stored bill is Closed, whatever
\* the currency; and UnsupportedCurrency only for a stored Open bill.  A call
\* goes on to append only for a stored Open bill and a supported currency.
C22_CheckOrder ==
    [][/\ ReturnsAtOnce("AddLineItem") =>
            LET id == response'.id
                currency == response'.currency IN
            /\ id \notin DOMAIN bills => response'.err = BillNotFound
            /\ (id \in DOMAIN bills /\ bills[id].Status = BillStatusClosed)
                  => response'.err = BillClosed
            /\ response'.err = UnsupportedCurrency
                  => /\ id \in DOMAIN bills
                     /\ bills[id].Status = BillStatusOpen
                     /\ ~IsSupported(currency)
       /\ \A t \in Threads :
            AddProceeds(t) =>
               LET id == local'[t].bill.ID IN
               /\ id \in DOMAIN bills
               /\ bills[id].Status = BillStatusOpen
               /\ IsSupported(local'[t].Currency)]_vars

\* AddLineItem has answered BillNotFound to a call with an unsupported currency
\* while other bills were stored
C22_Witness ==
    /\ response.op = "AddLineItem"
    /\ response.err = BillNotFound
    /\ ~IsSupported(response.currency)
    /\ response.id \notin DOMAIN bills
    /\ DOMAIN bills # {}

----------------------------------------------------------------------------
(* C23 *)

\* C23: convertAndAdd converts the line item's amount into the bill's currency:
\* an item in the bill's currency raises the total by its amount, a GEL item on
\* a USD bill by amount * 0.37, and a USD item on a GEL bill by amount / 0.37
\* (the last stated without division as rise * 37 = amount * 100).
C23_ConvertsToBillCurrency ==
    [][\A t \in Threads :
          AddAppends(t) =>
             LET bill == local[t].bill
                 amount == local[t].Amount
                 rise == local'[t].bill.TotalAmount - bill.TotalAmount IN
             /\ bill.Currency = local[t].Currency => rise = amount
             /\ (bill.Currency = CurrencyUSD /\ local[t].Currency = CurrencyGEL)
                   => rise = (amount * 37) \div 100
             /\ (bill.Currency = CurrencyGEL /\ local[t].Currency = CurrencyUSD)
                   => rise * 37 = amount * 100]_vars

----------------------------------------------------------------------------
(* The repository called directly, by a caller other than BillingService *)

\* the bills a caller hands to Create and Update: any identifier, status,
\* currency and total, with no line item or one
BillInputs ==
    [ID : IDInputs, Status : {BillStatusOpen, BillStatusClosed},
     Currency : {CurrencyGEL, CurrencyUSD}, TotalAmount : {0, 10000},
     items : 0 .. 1]

\* the caller's bill for the input b: the heap with its LineItems and the bill
CallerBill(b) ==
    LET app == IF b.items = 0
               THEN [heap |-> heap, slice |-> EmptySlice]
               ELSE AppendSlice(heap, EmptySlice, GrownItem) IN
    [heap |-> app.heap,
     bill |-> [ID |-> b.ID, Status |-> b.Status, Currency |-> b.Currency,
               TotalAmount |-> b.TotalAmount, LineItems |-> app.slice,
               CreatedAt |-> Now,
               ClosedAt |-> IF b.Status = BillStatusClosed THEN Now ELSE Nil]]

\* a repository call's return: the caller drops its bill
RepoReturn(op, id, bill, list, h) ==
    /\ response' = [op |-> op, id |-> id, currency |-> "", status |-> "",
                    err |-> NoError, bill |-> View(h, bill), list |-> list]
    /\ heap' = Collect(h, bills', local)
    /\ UNCHANGED <<clock, created, pc, local, mu, wf, encore>>

RepoCreate(b) ==
    LET c == CallerBill(b) IN
    /\ bills' = Create(bills, c.bill)
    /\ RepoReturn("Create", c.bill.ID, c.bill, {}, c.heap)

RepoUpdate(b) ==
    LET c == CallerBill(b) IN
    /\ bills' = Update(bills, c.bill)
    /\ RepoReturn("Update", c.bill.ID, c.bill, {}, c.heap)

RepoGet(id) ==
    /\ bills' = bills
    /\ RepoReturn("Get", id, Get(bills, id), {}, heap)

RepoList(status) ==
    /\ bills' = bills
    /\ RepoReturn("List", 0, NoBill,
                  {View(heap, bill) : bill \in List(bills, status)}, heap)

NextRepository ==
    \/ Tick
    \/ \E b \in BillInputs : RepoCreate(b)
    \/ \E b \in BillInputs : RepoUpdate(b)
    \/ \E id \in IDInputs : RepoGet(id)
    \/ \E status \in StatusInputs : RepoList(status)

SpecRepository == Init /\ [][NextRepository]_vars

----------------------------------------------------------------------------
(* C24 *)

\* C24: Update with a bill whose identifier is not stored returns no error and
\* leaves the whole store unchanged; Update with a stored identifier stores the
\* given bill under it and leaves every other entry unchanged, and no entry is
\* added or removed.
C24_Update ==
    [][response'.op = "Update" =>
          /\ response'.err = NoError
          /\ DOMAIN Store' = DOMAIN Store
          /\ \A id \in DOMAIN Store :
               Store'[id] = IF id = response'.id THEN response'.bill ELSE Store[id]]_vars

\* Update has just been called with an identifier that is not stored while
\* another bill is stored
C24_Witness ==
    /\ response.op = "Update"
    /\ response.id \notin DOMAIN bills
    /\ DOMAIN bills # {}

----------------------------------------------------------------------------
(* C25 *)

\* the sum of the amounts of the signals in s whose currency is cur
RECURSIVE SameCurrencySum(_, _)
SameCurrencySum(s, cur) ==
    IF s = << >> THEN 0
    ELSE (IF Head(s).Currency = cur THEN Head(s).Amount ELSE 0)
            + SameCurrencySum(Tail(s), cur)

\* C25: in every state of the workflow LineItemCount is the number of
\* add-line-item signals handled, TotalAmount is the sum of the amounts of the
\* handled signals in the workflow's currency (the others are counted and add
\* nothing), and the status is closed iff ClosedAt is present; and once the
\* status is closed no signal or timer is handled: the count, the total, the
\* handled signals, the status and ClosedAt stay as they are.
C25_MirroredState ==
    /\ [](/\ wf.LineItemCount = Len(wf.handled)
          /\ wf.TotalAmount = SameCurrencySum(wf.handled, wf.Currency)
          /\ wf.Status \in {"open", "closed"}
          /\ wf.Status = "closed" <=> wf.ClosedAt # Nil)
    /\ [][wf.Status = "closed" =>
             /\ wf'.Status = "closed"
             /\ wf'.ClosedAt = wf.ClosedAt
             /\ wf'.LineItemCount = wf.LineItemCount
             /\ wf'.TotalAmount = wf.TotalAmount
             /\ wf'.handled = wf.handled
             /\ wf'.addLineItemChan \in {wf.addLineItemChan} \cup
                   {Append(wf.addLineItemChan, [Amount |-> a, Currency |-> c]) :
                       a \in Amounts, c \in CurrencyInputs}
             /\ wf'.closeBillChan >= wf.closeBillChan
             /\ wf'.timerHandled = wf.timerHandled]_vars

\* the workflow is closed having handled a signal in its own currency and one in
\* another, with a further signal left unhandled in the channel
C25_Witness ==
    /\ wf.Status = "closed"
    /\ wf.LineItemCount = 2
    /\ wf.TotalAmount = 10000
    /\ wf.addLineItemChan # << >>

----------------------------------------------------------------------------
(* The Encore billing package (src/billing/billing.go), called sequentially *)

\* Its bills are kept in encore.bills by value: in a sequence of calls that do
\* not overlap, the bill a call stores is the one it has just appended to, so the
\* backing arrays of the slices cannot be told from values.

\* the errors of the package: the formats given to fmt.Errorf
EncoreNotFound == "bill not found: %s"
EncoreAddToClosed == "cannot add line item to closed bill: %s"
EncoreAlreadyClosed == "bill already closed: %s"
EncoreUnsupportedCurrency == "unsupported currency: %s"

EncoreConvertToUSD(amount, currency) ==
    IF currency = CurrencyUSD
    THEN amount
    ELSE (amount * exchangeRates[CurrencyGEL]) \div RateScale

\* the package after a call: the map m, the events ev and what the call returned
EncoreReturn(m, ev, op, id, currency, status, err, bill, list) ==
    [bills |-> m, events |-> ev,
     response |-> [op |-> op, id |-> id, currency |-> currency, status |-> status,
                   err |-> err, bill |-> bill, list |-> list]]

\* billsTopic.Publish
Publish(ev, billID, type) == Append(ev, [BillID |-> billID, Type |-> type])

EncoreNoBill == View(<< >>, NoBill)

\* CreateBill (lines 114-141)
EncoreCreateBill(e, currency) ==
    LET cur == IF currency = "" THEN CurrencyUSD ELSE currency IN
    IF cur # CurrencyGEL /\ cur # CurrencyUSD
    THEN EncoreReturn(e.bills, e.events, "CreateBill", 0, currency, "",
                      EncoreUnsupportedCurrency, EncoreNoBill, {})
    ELSE LET bill == [ID |-> generateID, Status |-> BillStatusOpen,
                      Currency |-> cur, TotalAmount |-> 0, LineItems |-> << >>,
                      CreatedAt |-> Now, ClosedAt |-> Nil] IN
         EncoreReturn(Create(e.bills, bill), Publish(e.events, bill.ID, "created"),
                      "CreateBill", bill.ID, currency, "", NoError, bill, {})

\* the new total of AddLineItem (lines 169-175)
EncoreTotal(bill, req) ==
    IF bill.Currency = req.Currency
    THEN bill.TotalAmount + req.Amount
    ELSE IF req.Currency = CurrencyGEL /\ bill.Currency = CurrencyUSD
    THEN bill.TotalAmount + EncoreConvertToUSD(req.Amount, CurrencyGEL)
    ELSE IF req.Currency = CurrencyUSD /\ bill.Currency = CurrencyGEL
    THEN bill.TotalAmount + EncoreConvertToUSD(req.Amount, CurrencyUSD)
    ELSE bill.TotalAmount

\* a faulty variant: validates the currency before it looks the bill up
EncoreAddLineItem_CurrencyFirst(e, billID, req) ==
    IF req.Currency # CurrencyGEL /\ req.Currency # CurrencyUSD
    THEN EncoreReturn(e.bills, e.events, "AddLineItem", billID, req.Currency, "",
                      EncoreUnsupportedCurrency, EncoreNoBill, {})
    ELSE IF billID \notin DOMAIN e.bills
    THEN EncoreReturn(e.bills, e.events, "AddLineItem", billID, req.Currency, "",
                      EncoreNotFound, EncoreNoBill, {})
    ELSE IF e.bills[billID].Status = BillStatusClosed
    THEN EncoreReturn(e.bills, e.events, "AddLineItem", billID, req.Currency, "",
                      EncoreAddToClosed, EncoreNoBill, {})
    ELSE LET old == e.bills[billID]
             bill == [old EXCEPT !.LineItems = Append(@, NewLineItem(req)),
                                 !.TotalAmount = EncoreTotal(old, req)] IN
         EncoreReturn([e.bills EXCEPT ![billID] = bill],
                      Publish(e.events, billID, "line_item_added"),
                      "AddLineItem", billID, req.Currency, "", NoError, bill, {})

\* AddLineItem (lines 144-188)
EncoreAddLineItem(e, billID, req) ==
    IF billID \notin DOMAIN e.bills
    THEN EncoreReturn(e.bills, e.events, "AddLineItem", billID, req.Currency, "",
                      EncoreNotFound, EncoreNoBill, {})
    ELSE IF e.bills[billID].Status = BillStatusClosed
    THEN EncoreReturn(e.bills, e.events, "AddLineItem", billID, req.Currency, "",
                      EncoreAddToClosed, EncoreNoBill, {})
    ELSE IF req.Currency # CurrencyGEL /\ req.Currency # CurrencyUSD
    THEN EncoreReturn(e.bills, e.events, "AddLineItem", billID, req.Currency, "",
                      EncoreUnsupportedCurrency, EncoreNoBill, {})
    ELSE LET old == e.bills[billID]
             bill == [old EXCEPT !.LineItems = Append(@, NewLineItem(req)),
                                 !.TotalAmount = EncoreTotal(old, req)] IN
         EncoreReturn([e.bills EXCEPT ![billID] = bill],
                      Publish(e.events, billID, "line_item_added"),
                      "AddLineItem", billID, req.Currency, "", NoError, bill, {})

\* CloseBill (lines 191-214)
EncoreCloseBill(e, billID) ==
    IF billID \notin DOMAIN e.bills
    THEN EncoreReturn(e.bills, e.events, "CloseBill", billID, "", "",
                      EncoreNotFound, EncoreNoBill, {})
    ELSE IF e.bills[billID].Status = BillStatusClosed
    THEN EncoreReturn(e.bills, e.events, "CloseBill", billID, "", "",
                      EncoreAlreadyClosed, EncoreNoBill, {})
    ELSE LET bill == [e.bills[billID] EXCEPT !.Status = BillStatusClosed,
                                             !.ClosedAt = Now] IN
         EncoreReturn([e.bills EXCEPT ![billID] = bill],
                      Publish(e.events, billID, "closed"),
                      "CloseBill", billID, "", "", NoError, bill, {})

\* GetBill (lines 217-224)
EncoreGetBill(e, billID) ==
    IF billID \notin DOMAIN e.bills
    THEN EncoreReturn(e.bills, e.events, "GetBill", billID, "", "",
                      EncoreNotFound, EncoreNoBill, {})
    ELSE EncoreReturn(e.bills, e.events, "GetBill", billID, "", "",
                      NoError, e.bills[billID], {})

\* ListBills (lines 227-238)
EncoreListBills(e, status) ==
    EncoreReturn(e.bills, e.events, "ListBills", 0, "", status, NoError,
                 EncoreNoBill,
                 {e.bills[id] : id \in {i \in DOMAIN e.bills :
                                   ~(status # "" /\ e.bills[i].Status # status)}})

----------------------------------------------------------------------------
(* BillingService, called sequentially: each call runs from its first line to
   its return with no other call in between *)

\* what a call of the service leaves: the error and the bill it returns, the
\* store and the heap
ServiceResult(err, bill, m, h) == [err |-> err, bill |-> bill, bills |-> m, heap |-> h]

\* CreateBill (billing.go lines 29-50)
ServiceCreateBill(currency) ==
    LET cur == DefaultCurrency(currency) IN
    IF ~IsSupported(cur)
    THEN ServiceResult(UnsupportedCurrency, NoBill, bills, heap)
    ELSE LET bill == NewBill(cur) IN
         ServiceResult(NoError, bill, Create(bills, bill), heap)

\* AddLineItem (lines 53-88)
ServiceAddLineItem(billID, req) ==
    LET bill == Get(bills, billID)
        err == AddLineItemCheck(bill, req.Currency) IN
    IF err # NoError
    THEN ServiceResult(err, NoBill, bills, heap)
    ELSE LET app == AppendSlice(heap, bill.LineItems, NewLineItem(req))
             new == [bill EXCEPT
                       !.LineItems = app.slice,
                       !.TotalAmount = convertAndAdd(bill.TotalAmount, bill.Currency,
                                                     req.Amount, req.Currency)] IN
         ServiceResult(NoError, new, Update(bills, new), app.heap)

\* CloseBill (lines 91-113)
ServiceCloseBill(billID) ==
    LET bill == Get(bills, billID)
        err == CloseBillCheck(bill) IN
    IF err # NoError
    THEN ServiceResult(err, NoBill, bills, heap)
    ELSE ServiceResult(NoError, AsClosed(bill), Update(bills, AsClosed(bill)), heap)

\* GetBill (lines 116-125)
ServiceGetBill(billID) ==
    LET bill == Get(bills, billID) IN
    IF bill = NoBill
    THEN ServiceResult(BillNotFound, NoBill, bills, heap)
    ELSE ServiceResult(NoError, bill, bills, heap)

\* the same call made of the service, with the result s and the list it
\* returned, and of the Encore package, which it leaves as e; ids is the number
\* of identifiers each of the two generated
BothReturn(s, e, op, id, currency, status, list, ids) ==
    /\ created + ids <= MaxIDs
    /\ created' = created + ids
    /\ bills' = s.bills
    /\ heap' = Collect(s.heap, s.bills, local)
    /\ response' = [op |-> op, id |-> id, currency |-> currency, status |-> status,
                    err |-> s.err, bill |-> View(s.heap, s.bill), list |-> list]
    /\ encore' = e
    /\ UNCHANGED <<clock, pc, local, mu, wf>>

\* the identifiers a call generated: one if it succeeded
Generated(s) == IF s.err = NoError THEN 1 ELSE 0

\* no call of the service is in flight
NoCall == \A t \in Threads : pc[t] = "idle"

BothCreateBill(currency) ==
    /\ NoCall
    /\ LET s == ServiceCreateBill(currency) IN
       BothReturn(s, EncoreCreateBill(encore, currency), "CreateBill", s.bill.ID,
                  currency, "", {}, Generated(s))

BothAddLineItem(billID, description, amount, currency) ==
    /\ NoCall
    /\ LET req == [Description |-> description, Amount |-> amount,
                   Currency |-> currency]
           s == ServiceAddLineItem(billID, req) IN
       BothReturn(s, EncoreAddLineItem(encore, billID, req), "AddLineItem",
                  billID, currency, "", {}, Generated(s))

BothCloseBill(billID) ==
    /\ NoCall
    /\ BothReturn(ServiceCloseBill(billID), EncoreCloseBill(encore, billID),
                  "CloseBill", billID, "", "", {}, 0)

BothGetBill(billID) ==
    /\ NoCall
    /\ BothReturn(ServiceGetBill(billID), EncoreGetBill(encore, billID),
                  "GetBill", billID, "", "", {}, 0)

BothListBills(status) ==
    /\ NoCall
    /\ BothReturn(ServiceResult(NoError, NoBill, bills, heap),
                  EncoreListBills(encore, status), "ListBills", 0, "", status,
                  {View(heap, bill) : bill \in List(bills, status)}, 0)

NextEncore ==
    \/ Tick
    \/ \E currency \in CurrencyInputs : BothCreateBill(currency)
    \/ \E billID \in IDInputs, description \in Descriptions, amount \in Amounts,
          currency \in CurrencyInputs :
            BothAddLineItem(billID, description, amount, currency)
    \/ \E billID \in IDInputs : BothCloseBill(billID)
    \/ \E billID \in IDInputs : BothGetBill(billID)
    \/ \E status \in StatusInputs : BothListBills(status)

\* Every call is made of both implementations, at the same clock reading, and
\* the calls do not overlap.
SpecEncore == Init /\ [][NextEncore]_vars

----------------------------------------------------------------------------
(* C26 *)

\* the type of the event a successful call publishes
EventType(op) ==
    CASE op = "CreateBill" -> "created"
      [] op = "AddLineItem" -> "line_item_added"
      [] op = "CloseBill" -> "closed"

\* the types of the events published for the bill id, in order
EventsOf(id) ==
    LET OfBill(ev) == ev.BillID = id
        evs == SelectSeq(encore.events, OfBill) IN
    [i \in 1 .. Len(evs) |-> evs[i].Type]

\* created, then any number of line_item_added, then at most one closed
WellFormed(types) ==
    types # << >> =>
       /\ types[1] = "created"
       /\ \A i \in 2 .. Len(types) : types[i] # "created"
       /\ \A i \in 1 .. Len(types) - 1 : types[i] # "closed"

\* the call of the step, if it is one, published exactly the event of its type
\* for its bill, and the bill map holds the bill it returned; or it failed, or
\* was a GetBill or ListBills, and published nothing
PublishesOnSuccess ==
    LET r == encore'.response IN
    IF /\ response'.op # "none"
       /\ r.err = NoError
       /\ r.op \in {"CreateBill", "AddLineItem", "CloseBill"}
    THEN /\ encore'.events =
              Append(encore.events, [BillID |-> r.id, Type |-> EventType(r.op)])
         /\ r.id \in DOMAIN encore'.bills
         /\ encore'.bills[r.id] = r.bill
    ELSE encore'.events = encore.events

\* C26: in the Encore billing package every successful CreateBill, AddLineItem
\* and CloseBill publishes exactly one event for its bill, of type created,
\* line_item_added and closed, with the bill map updated, and a failing call
\* publishes none; and in a sequence of calls the events of each bill are
\* created, then zero or more line_item_added, then at most one closed, with no
\* event after closed.
C26_LifecycleEvents ==
    /\ [][PublishesOnSuccess]_vars
    /\ [](\A id \in IDInputs : WellFormed(EventsOf(id)))

----------------------------------------------------------------------------
(* C28 *)

\* the kind of an error of either implementation
ErrorKind(err) ==
    CASE err = NoError -> "success"
      [] err \in {BillNotFound, EncoreNotFound} -> "not-found"
      [] err \in {BillClosed, EncoreAddToClosed, EncoreAlreadyClosed} -> "closed"
      [] err \in {UnsupportedCurrency, EncoreUnsupportedCurrency}
            -> "unsupported-currency"

\* the bills a and b, as their readers see them, have the same status, currency
\* and total, line items of the same amounts and currencies in the same order,
\* and closedAt present in both or in neither
SameBill(a, b) ==
    /\ a.Status = b.Status
    /\ a.Currency = b.Currency
    /\ a.TotalAmount = b.TotalAmount
    /\ (a.ClosedAt = Nil) <=> (b.ClosedAt = Nil)
    /\ Len(a.LineItems) = Len(b.LineItems)
    /\ \A i \in 1 .. Len(a.LineItems) :
         /\ a.LineItems[i].Amount = b.LineItems[i].Amount
         /\ a.LineItems[i].Currency = b.LineItems[i].Currency

\* every bill of the list x is one of the list y
ListedIn(x, y) == \A a \in x : \E b \in y : a.ID = b.ID /\ SameBill(a, b)

\* C28: for every sequence of calls that do not overlap, made with the same
\* arguments of the Encore billing package and of BillingService over
\* InMemoryBillRepository, each call has the same outcome in both (success, or
\* the same kind of error, and the same bill or list of bills) and both hold
\* the same bills.
C28_ImplementationsAgree ==
    /\ DOMAIN encore.bills = DOMAIN bills
    /\ \A id \in DOMAIN bills : SameBill(Store[id], encore.bills[id])
    /\ response.op # "none" =>
          /\ encore.response.op = response.op
          /\ ErrorKind(encore.response.err) = ErrorKind(response.err)
          /\ SameBill(response.bill, encore.response.bill)
          /\ ListedIn(response.list, encore.response.list)
          /\ ListedIn(encore.response.list, response.list)

\* both have refused a line item in an unsupported currency for a Closed GEL
\* bill that holds a USD line item
C28_Witness ==
    /\ response.op = "AddLineItem"
    /\ ~IsSupported(response.currency)
    /\ response.err = BillClosed
    /\ encore.response.err = EncoreAddToClosed
    /\ response.id \in DOMAIN bills
    /\ Store[response.id].Currency = CurrencyGEL
    /\ Len(Store[response.id].LineItems) = 1
    /\ Store[response.id].LineItems[1].Currency = CurrencyUSD

----------------------------------------------------------------------------
(* Concurrent calls that target pairwise different bills *)

\* no other thread is inside a call on the bill billID
Untargeted(t, billID) ==
    \A u \in Threads \ {t} : pc[u] = "idle" \/ local[u].bill.ID # billID

AddLineItemDisjoint(t, billID, description, amount, currency) ==
    /\ Untargeted(t, billID)
    /\ AddLineItem(t, billID, description, amount, currency)

CloseBillDisjoint(t, billID) ==
    /\ Untargeted(t, billID)
    /\ CloseBill(t, billID)

NextDisjoint ==
    \/ Tick
    \/ \E t \in Threads, currency \in CurrencyInputs : CreateBillDistinct(t, currency)
    \/ \E t \in Threads, billID \in IDInputs, description \in Descriptions,
          amount \in Amounts, currency \in CurrencyInputs :
            AddLineItemDisjoint(t, billID, description, amount, currency)
    \/ \E t \in Threads : AddLineItemAppend(t)
    \/ \E t \in Threads : AddLineItemUpdate(t)
    \/ \E t \in Threads, billID \in IDInputs : CloseBillDisjoint(t, billID)
    \/ \E t \in Threads : CloseBillUpdate(t)
    \/ \E t \in Threads, billID \in IDInputs : GetBill(t, billID)
    \/ \E t \in Threads, status \in StatusInputs : ListBills(t, status)

\* The executions in which the AddLineItem and CloseBill calls that overlap are
\* on different bills, with distinct bill identifiers.
SpecDisjoint == Init /\ [][NextDisjoint]_vars

----------------------------------------------------------------------------
(* C27 *)

\* the step leaves every stored bill other than id as it is
OthersUnchanged(id) ==
    \A other \in DOMAIN bills \ {id} :
       other \in DOMAIN bills' /\ Store'[other] = Store[other]

\* the step leaves the store and returns the bill that the call with the result
\* s, made alone in the state before the step, leaves and returns
AsIfAlone(s) ==
    /\ response'.err = s.err
    /\ SameBill(response'.bill, View(s.heap, s.bill))
    /\ response'.bill.ID = s.bill.ID
    /\ DOMAIN bills' = DOMAIN s.bills
    /\ \A id \in DOMAIN bills' : SameBill(Store'[id], View(s.heap, s.bills[id]))

\* C27: operations on different bills are independent.  Every step of an
\* AddLineItem or CloseBill on a bill leaves the stored record of every other
\* bill unchanged; and when the calls that overlap are on pairwise different
\* bills, each call takes effect as if it ran alone at the step of its Update:
\* the store after that step and the bill returned are those of the same call
\* made with no other call in flight, so every interleaving gives the results
\* and the final store of a sequential order.
C27_Independent ==
    [][\A t \in Threads :
          /\ (AddAppends(t) \/ AddUpdates(t) \/ CloseUpdates(t))
                => OthersUnchanged(local[t].bill.ID)
          /\ AddUpdates(t) =>
                AsIfAlone(ServiceAddLineItem(local[t].bill.ID,
                             [Description |-> local[t].Description,
                              Amount |-> local[t].Amount,
                              Currency |-> local[t].Currency]))
          /\ CloseUpdates(t) => AsIfAlone(ServiceCloseBill(local[t].bill.ID))]_vars

\* an AddLineItem on one bill has returned while a CloseBill on another bill,
\* begun before that return, has not yet stored
C27_Witness ==
    /\ response.op = "AddLineItem"
    /\ response.err = NoError
    /\ \E u \in Threads :
         /\ pc[u] = "close_update"
         /\ local[u].bill.ID # response.id
         /\ local[u].bill.ID \in DOMAIN bills
         /\ Store[local[u].bill.ID].Status = BillStatusOpen

----------------------------------------------------------------------------
(* C29 *)

\* the Update of the test mock repository (billing_test.go lines 33-36): it
\* stores the bill whether or not its identifier is stored
MockUpdate(m, bill) ==
    [id \in DOMAIN m \cup {bill.ID} |-> IF id = bill.ID THEN bill ELSE m[id]]

\* C29: BillingService never calls Update with an identifier that is not
\* stored, in any interleaving: at the Update of every AddLineItem and
\* CloseBill the identifier of the bill handed over is stored, so the branch of
\* InMemoryBillRepository.Update that does nothing is not taken, and the store
\* after the step is the one the mock repository's Update would leave.
C29_UpdateFindsItsBill ==
    [][\A t \in Threads :
          /\ AddUpdates(t) =>
                /\ local[t].bill.ID \in DOMAIN bills
                /\ bills' = MockUpdate(bills, local[t].bill)
          /\ CloseUpdates(t) =>
                /\ local[t].bill.ID \in DOMAIN bills
                /\ bills' = MockUpdate(bills, AsClosed(local[t].bill))]_vars

\* CloseBill has stored its bill while an AddLineItem on the same bill, which
\* read it earlier, is about to call Update
C29_Witness ==
    /\ response.op = "CloseBill"
    /\ response.err = NoError
    /\ \E u \in Threads :
         /\ pc[u] = "add_update"
         /\ local[u].bill.ID = response.id

====
